---- MODULE Spec2Model ----
(* State-machine model of the RSS -> Wooostock uploader (src/rss_article.py). *)
(* One run is either process_rss over the feed's entries or the Flask route   *)
(* root() called with ?url=...; each network call of push_article is a step.  *)
(* Strings the code splits, strips or joins are sequences of one-character    *)
(* strings.  Variables set only to state the properties (what the network     *)
(* answered, what was stored) are marked "history".                           *)
EXTENDS Integers, Sequences, FiniteSets, TLC

VARIABLES
    feed,        \* feedparser.parse(feed_url).entries: the entries' links
    fileExists,  \* POSTED_PATH.exists()
    file,        \* the text of POSTED_PATH
    pc,          \* position of the running handler
    mode,        \* "none" | "rss" (process_rss) | "single" (root() with ?url=)
    seen,        \* the set load_posted() returned to the running handler
    idx,         \* position of process_rss's loop in entries (1-based)
    url,         \* push_article's url argument
    results,     \* process_rss's results dict
    rest,        \* push_article's local rest
    cover,       \* push_article's local cover
    first_img,   \* push_article's local first_img
    files,       \* push_article's local files
    rsp,         \* the response of requests.post
    reply,       \* what the last run handed back
    contentStatus, \* history: status the content endpoint answered (0: none yet)
    log,         \* history: one record per entry process_rss has finished
    postCount,   \* history: POSTs issued per url in the current run
    resolved,    \* history: urls whose POST was answered 2xx or 409
    dup409,      \* history: urls whose POST was answered 409
    saved,       \* history: identifiers save_posted has written
    rssDone,     \* history: a process_rss run has completed
    fnPc,        \* pure parts run alone: "off" | "kw_in" | "kw_out" | "img_in" | "img_out"
    argIn,       \* pure parts run alone: the input
    argOut       \* pure parts run alone: the result

storeVars == <<fileExists, file>>
localVars == <<rest, cover, first_img, files, rsp, contentStatus>>
histVars  == <<resolved, dup409, saved, rssDone>>
fnVars    == <<fnPc, argIn, argOut>>
runVars   == <<feed, fileExists, file, pc, mode, seen, idx, url, results, rest,
               cover, first_img, files, rsp, reply, contentStatus, log, postCount,
               resolved, dup409, saved, rssDone>>
vars == <<runVars, fnVars>>

\* ---------------------------------------------------------------- bounds
MaxFeed == 2
MaxBlocks == 2
MaxMeta == 5
MaxTags == 2

\* ---------------------------------------------------------------- values
None == "None"
NL == "\n"
SP == " "

URLs == {"u1", "u2"}

\* hashlib.md5(s.encode()).hexdigest(): a fixed, collision-free table on URLs.
md5(s) == IF s = "u1" THEN <<"c", "4">> ELSE <<"9", "e">>

\* Python truthiness of a str-or-None, and `a or b`.
Truthy(x) == x # None /\ x # ""
PyOr(a, b) == IF Truthy(a) THEN a ELSE b

RECURSIVE SeqsUpTo(_, _)
SeqsUpTo(S, n) ==
    IF n = 0 THEN {<<>>}
    ELSE LET shorter == SeqsUpTo(S, n - 1)
         IN  shorter \cup {Append(s, x) : s \in {t \in shorter : Len(t) = n - 1}, x \in S}

\* ------------------------------------------------------ the store file
IsSpace(c) == c \in {SP, NL}

RECURSIVE LStrip(_)
LStrip(s) == IF s # <<>> /\ IsSpace(Head(s)) THEN LStrip(Tail(s)) ELSE s

RECURSIVE RStrip(_)
RStrip(s) ==
    IF s # <<>> /\ IsSpace(s[Len(s)]) THEN RStrip(SubSeq(s, 1, Len(s) - 1)) ELSE s

\* str.strip()
Strip(s) == LStrip(RStrip(s))

\* str.splitlines(): the lines of a text, a trailing line break adding no line.
RECURSIVE SplitLines(_, _, _)
SplitLines(s, cur, acc) ==
    IF s = <<>> THEN (IF cur = <<>> THEN acc ELSE Append(acc, cur))
    ELSE IF Head(s) = NL THEN SplitLines(Tail(s), <<>>, Append(acc, cur))
    ELSE SplitLines(Tail(s), Append(cur, Head(s)), acc)

splitlines(s) == SplitLines(s, <<>>, <<>>)

\* The set comprehension of load_posted over the text of an existing file.
PostedLines(text) ==
    LET ls == splitlines(text)
    IN  {Strip(ls[i]) : i \in {j \in 1..Len(ls) : Strip(ls[j]) # <<>>}}

\* load_posted() forgetting what the file holds.
load_posted_forgets(exists, text) == [set |-> {}, exists |-> TRUE, text |-> text]

\* load_posted(): [set, exists, text] -- the set returned and the file after it.
load_posted(exists, text) ==
    IF exists
    THEN [set |-> PostedLines(text), exists |-> TRUE, text |-> text]
    ELSE [set |-> {}, exists |-> TRUE, text |-> <<>>]

\* save_posted(uid) opening the file with 'w'.
save_posted_truncates(text, uid) == uid \o <<NL>>

\* save_posted(uid): open('a') and write uid + '\n'.
save_posted(text, uid) == text \o uid \o <<NL>>

\* ------------------------------------------------------------- network
NoResp == [exc |-> FALSE, status |-> 0]
NetErr == [exc |-> TRUE, status |-> 0]
Http(s) == [exc |-> FALSE, status |-> s]

PageStatuses == {200, 304, 404}
ContentStatuses == {200, 404}
PostStatuses == {101, 200, 304, 404, 409, 500}

\* Response.raise_for_status(): raises for 4xx and 5xx only.
RaisesForStatus(s) == 400 <= s /\ s < 600

Is2xx(s) == 200 <= s /\ s < 300

\* The conflict branch missing.
IsConflictNever(s) == FALSE

\* rsp.status_code == 409
IsConflict(s) == s = 409

\* ------------------------------------------------------ the raw body
Img(s) == [tag |-> "img", linkimg |-> FALSE, imgs |-> <<[src |-> s]>>]
Para(imgs) == [tag |-> "p", linkimg |-> FALSE, imgs |-> imgs]
LinkImgPara(s) == [tag |-> "p", linkimg |-> TRUE, imgs |-> <<[src |-> s]>>]

Blocks == {Para(<<>>), Para(<<[src |-> "s1"]>>), LinkImgPara("s2"), Img("s1"), Img("s2")}
Bodies == SeqsUpTo(Blocks, MaxBlocks) \ {<<>>}

\* Element.get(key) and Element.attrib.clear()
AttrGet(attrib, key) == IF key \in DOMAIN attrib THEN attrib[key] ELSE None
AttrClear(attrib) == <<>>

\* html.fromstring(raw): a fragment of one element is returned as that element,
\* several are wrapped in a div.
HtmlFromString(blocks) == [single |-> Len(blocks) = 1, blocks |-> blocks]

\* root.xpath('.//p'): the p descendants of root (never root itself).
XPathParas(root) ==
    IF root.single THEN <<>> ELSE SelectSeq(root.blocks, LAMBDA b : b.tag = "p")

\* root.xpath('.//img[not(ancestor::p)]'): img descendants outside paragraphs.
XPathOutsideImgs(root) ==
    IF root.single THEN <<>> ELSE SelectSeq(root.blocks, LAMBDA b : b.tag = "img")

\* The inner loop over p.xpath('.//img'): the attributes are cleared before
\* img.get('src') is read.
RECURSIVE ParaImgs(_, _)
ParaImgs(imgs, fi) ==
    IF imgs = <<>> THEN fi
    ELSE ParaImgs(Tail(imgs), PyOr(fi, AttrGet(AttrClear(Head(imgs)), "src")))

\* The loop over the paragraphs: a paragraph that is one link around an image
\* is skipped.
RECURSIVE ParaLoop(_, _)
ParaLoop(ps, fi) ==
    IF ps = <<>> THEN fi
    ELSE IF Head(ps).linkimg THEN ParaLoop(Tail(ps), fi)
    ELSE ParaLoop(Tail(ps), ParaImgs(Head(ps).imgs, fi))

\* The loop over the images outside paragraphs.
RECURSIVE OutsideLoop(_, _)
OutsideLoop(is, fi) ==
    IF is = <<>> THEN fi
    ELSE OutsideLoop(Tail(is), PyOr(fi, AttrGet(Head(is).imgs[1], "src")))

\* first_img after both loops of push_article.
FirstImg(blocks) ==
    LET root == HtmlFromString(blocks)
    IN  OutsideLoop(XPathOutsideImgs(root), ParaLoop(XPathParas(root), ""))


\* cover = cover or first_img; `if cover` decides whether fetch_pic is called.
CoverOf(og, fi) == PyOr(og, fi)

\* ------------------------------------------------------ the keywords
DecoTV == <<"D", "e", "c", "o", "T", "V">>
Comma == ","
FullwidthComma == "U+FF0C"
IdeographicComma == "U+3001"
SepChars == {Comma, FullwidthComma, IdeographicComma}

\* SEP_RX.split(s): SEP_RX is a comma, fullwidth comma or ideographic comma,
\* followed by any white space.
RECURSIVE SepSplit(_, _, _, _)
SepSplit(s, cur, acc, afterSep) ==
    IF s = <<>> THEN Append(acc, cur)
    ELSE IF Head(s) \in SepChars THEN SepSplit(Tail(s), <<>>, Append(acc, cur), TRUE)
    ELSE IF afterSep /\ IsSpace(Head(s)) THEN SepSplit(Tail(s), cur, acc, TRUE)
    ELSE SepSplit(Tail(s), Append(cur, Head(s)), acc, FALSE)

\* split_kw(s): [k.strip() for k in SEP_RX.split(s) if k.strip()]
RECURSIVE StripNonEmpty(_)
StripNonEmpty(ks) ==
    IF ks = <<>> THEN <<>>
    ELSE IF Strip(Head(ks)) = <<>> THEN StripNonEmpty(Tail(ks))
    ELSE <<Strip(Head(ks))>> \o StripNonEmpty(Tail(ks))

split_kw(s) == StripNonEmpty(SepSplit(s, <<>>, <<>>, FALSE))

\* [k for k in kw if not (k in seen_kw or seen_kw.add(k))]
RECURSIVE KwLoop(_, _, _)
KwLoop(kw, seen_kw, out) ==
    IF kw = <<>> THEN out
    ELSE IF Head(kw) \in seen_kw THEN KwLoop(Tail(kw), seen_kw, out)
    ELSE KwLoop(Tail(kw), seen_kw \cup {Head(kw)}, Append(out, Head(kw)))

\* The list comprehension without its filter.
KwNoDedup(kw) == kw

KwDedup(kw) == KwLoop(kw, {}, <<>>)

\* ','.join(list)
RECURSIVE Join(_)
Join(ks) ==
    IF ks = <<>> THEN <<>>
    ELSE IF Len(ks) = 1 THEN Head(ks)
    ELSE Head(ks) \o <<Comma>> \o Join(Tail(ks))

\* kw = ['DecoTV'] + split_kw(meta) + tag texts
KwSources(meta, tags) == <<DecoTV>> \o split_kw(meta) \o tags

\* ------------------------------------------------- what the network answers
PageResponses ==
    {[exc |-> TRUE, status |-> 0, og |-> "", rest |-> ""]}
    \cup [exc : {FALSE}, status : PageStatuses, og : {"", "og.jpg"},
          rest : {"", "wp-json"}]

\* json: "invalid" (json.loads raises), "norendered" (no content.rendered, so
\* raw = '' and html.fromstring raises), "rendered" (raw is a body).
ContentResponses ==
    {[exc |-> TRUE, status |-> 0, json |-> "invalid", raw |-> <<>>]}
    \cup [exc : {FALSE}, status : ContentStatuses, json : {"invalid", "norendered"},
          raw : {<<>>}]
    \cup [exc : {FALSE}, status : ContentStatuses, json : {"rendered"}, raw : Bodies]

PostResponses == {NetErr} \cup {Http(s) : s \in PostStatuses}

\* ------------------------------------------------------------- the state
EmptyResults == [success |-> <<>>, failed |-> <<>>]
NoReply == [kind |-> "none", code |-> 0]
ZeroPosts == [u \in URLs |-> 0]

\* The posted file before the first run: absent, empty, or one blank line.  Every
\* line ends with a line break, as in every file load_posted and save_posted write.
InitFiles ==
    {[exists |-> FALSE, text |-> <<>>],
     [exists |-> TRUE, text |-> <<>>],
     [exists |-> TRUE, text |-> <<SP, NL>>]}

IdleRun ==
    /\ pc = "idle" /\ mode = "none" /\ seen = {} /\ idx = 1 /\ url = ""
    /\ results = EmptyResults /\ reply = NoReply
    /\ rest = "" /\ cover = "" /\ first_img = "" /\ files = "unset" /\ rsp = 0
    /\ contentStatus = 0 /\ log = <<>> /\ postCount = ZeroPosts
    /\ resolved = {} /\ dup409 = {} /\ saved = {} /\ rssDone = FALSE

Init ==
    /\ feed \in SeqsUpTo(URLs, MaxFeed)
    /\ \E f \in InitFiles : fileExists = f.exists /\ file = f.text
    /\ IdleRun
    /\ fnPc = "off" /\ argIn = <<>> /\ argOut = <<>>

\* The locals of push_article end with the call.
ResetLocals ==
    /\ rest' = "" /\ cover' = "" /\ first_img' = "" /\ files' = "unset"
    /\ rsp' = 0 /\ contentStatus' = 0

LogRec(skipped, raised, res) ==
    [url |-> url, skipped |-> skipped, raised |-> raised, res |-> res]

\* push_article returned res (None or 'ok') to its caller: process_rss appends
\* the link to results['success'] when res is truthy and goes on with the next
\* entry; root() answers {'result': res or 'duplicate'}, 200.
Returned(res, skipped) ==
    /\ ResetLocals
    /\ IF mode = "rss"
       THEN /\ results' = IF Truthy(res)
                          THEN [results EXCEPT !.success = Append(@, url)]
                          ELSE results
            /\ idx' = idx + 1
            /\ pc' = "loop"
            /\ log' = Append(log, LogRec(skipped, FALSE, res))
            /\ UNCHANGED <<mode, reply>>
       ELSE /\ reply' = [kind |-> PyOr(res, "duplicate"), code |-> 200]
            /\ pc' = "idle"
            /\ mode' = "none"
            /\ UNCHANGED <<results, idx, log>>

\* The exception leaving the loop: the entry is recorded and the run ends.
RaisedAborts(err) ==
    /\ ResetLocals
    /\ IF mode = "rss"
       THEN /\ results' = [results EXCEPT
                             !.failed = Append(@, [url |-> url, error |-> err])]
            /\ idx' = Len(feed) + 1
            /\ pc' = "loop"
            /\ log' = Append(log, LogRec(FALSE, TRUE, "exc"))
            /\ UNCHANGED <<mode, reply>>
       ELSE /\ reply' = [kind |-> "error", code |-> 500]
            /\ pc' = "idle"
            /\ mode' = "none"
            /\ UNCHANGED <<results, idx, log>>

\* push_article raised: process_rss's except clause records {url, error} in
\* results['failed'] and goes on with the next entry; root() does not catch, and
\* Flask answers 500.
Raised(err) ==
    /\ ResetLocals
    /\ IF mode = "rss"
       THEN /\ results' = [results EXCEPT
                             !.failed = Append(@, [url |-> url, error |-> err])]
            /\ idx' = idx + 1
            /\ pc' = "loop"
            /\ log' = Append(log, LogRec(FALSE, TRUE, "exc"))
            /\ UNCHANGED <<mode, reply>>
       ELSE /\ reply' = [kind |-> "error", code |-> 500]
            /\ pc' = "idle"
            /\ mode' = "none"
            /\ UNCHANGED <<results, idx, log>>

\* seen = load_posted(), with what it does to the file.
LoadSeen ==
    LET l == load_posted(fileExists, file)
    IN  /\ seen' = l.set
        /\ fileExists' = l.exists
        /\ file' = l.text

\* ------------------------------------------------------------- actions
\* process_rss: parse the feed, load the store once, start the loop.
process_rss ==
    /\ pc = "idle" /\ fnPc = "off"
    /\ LoadSeen
    /\ mode' = "rss"
    /\ results' = EmptyResults
    /\ idx' = 1
    /\ pc' = "loop"
    /\ reply' = NoReply
    /\ postCount' = ZeroPosts
    /\ log' = <<>>
    /\ UNCHANGED <<feed, url, localVars, histVars, fnVars>>

\* for entry in entries: push_article(entry.link, seen)
process_rss_entry ==
    /\ pc = "loop" /\ mode = "rss"
    /\ idx <= Len(feed)
    /\ url' = feed[idx]
    /\ pc' = "check"
    /\ UNCHANGED <<feed, storeVars, mode, seen, idx, results, localVars, reply,
                   log, postCount, histVars, fnVars>>

\* return results, 200
process_rss_return ==
    /\ pc = "loop" /\ mode = "rss"
    /\ idx > Len(feed)
    /\ reply' = [kind |-> "summary", code |-> 200]
    /\ pc' = "idle"
    /\ mode' = "none"
    /\ idx' = 1
    /\ rssDone' = TRUE
    /\ UNCHANGED <<feed, storeVars, seen, url, results, localVars, log,
                   postCount, resolved, dup409, saved, fnVars>>

\* root() with ?url=u: load the store, push the one article.
root(u) ==
    /\ pc = "idle" /\ fnPc = "off"
    /\ LoadSeen
    /\ mode' = "single"
    /\ url' = u
    /\ pc' = "check"
    /\ reply' = NoReply
    /\ results' = EmptyResults
    /\ postCount' = ZeroPosts
    /\ log' = <<>>
    /\ UNCHANGED <<feed, idx, localVars, histVars, fnVars>>

\* push_article: uid = md5(url); if uid in seen: return None
push_article_check ==
    /\ pc = "check"
    /\ IF md5(url) \in seen
       THEN Returned(None, TRUE)
       ELSE /\ pc' = "page"
            /\ UNCHANGED <<mode, idx, results, localVars, reply, log>>
    /\ UNCHANGED <<feed, storeVars, seen, url, postCount, histVars, fnVars>>

\* requests.get(url); raise_for_status(); the meta tags and the alternate link.
push_article_page ==
    /\ pc = "page"
    /\ \E r \in PageResponses :
         IF r.exc \/ RaisesForStatus(r.status)
         THEN Raised("page")
         ELSE /\ cover' = r.og
              /\ rest' = r.rest
              /\ pc' = "content"
              /\ UNCHANGED <<mode, idx, results, first_img, files, rsp,
                             contentStatus, reply, log>>
    /\ UNCHANGED <<feed, storeVars, seen, url, postCount, histVars, fnVars>>

\* requests.get(rest).text; json.loads; html.fromstring(raw); the two loops.
\* An empty rest makes requests.get raise; no raise_for_status follows the get.
push_article_content ==
    /\ pc = "content"
    /\ IF rest = ""
       THEN Raised("content")
       ELSE \E r \in ContentResponses :
              IF r.exc \/ r.json # "rendered"
              THEN Raised("content")
              ELSE /\ first_img' = FirstImg(r.raw)
                   /\ contentStatus' = r.status
                   /\ pc' = "cover"
                   /\ UNCHANGED <<mode, idx, results, rest, cover, files, rsp,
                                  reply, log>>
    /\ UNCHANGED <<feed, storeVars, seen, url, postCount, histVars, fnVars>>

\* cover = cover or first_img; files = {'pic': fetch_pic(cover)} if cover else {}
\* fetch_pic returns None when the image cannot be fetched.
push_article_cover ==
    /\ pc = "cover"
    /\ cover' = CoverOf(cover, first_img)
    /\ IF Truthy(cover')
       THEN \E fetched \in BOOLEAN : files' = IF fetched THEN "pic" ELSE "picNone"
       ELSE files' = "empty"
    /\ pc' = "post"
    /\ UNCHANGED <<feed, storeVars, mode, seen, idx, url, results, rest, first_img,
                   rsp, contentStatus, reply, log, postCount, histVars, fnVars>>

\* rsp = requests.post(API_URL, data=payload, files=files)
\* Nothing after the POST reads rest, cover, first_img or files: they are dropped.
push_article_post ==
    /\ pc = "post"
    /\ postCount' = [postCount EXCEPT ![url] = @ + 1]
    /\ \E r \in PostResponses :
         /\ resolved' = IF ~r.exc /\ (Is2xx(r.status) \/ r.status = 409)
                        THEN resolved \cup {url} ELSE resolved
         /\ dup409' = IF ~r.exc /\ r.status = 409 THEN dup409 \cup {url} ELSE dup409
         /\ IF r.exc
            THEN Raised("post")
            ELSE /\ rsp' = r.status
                 /\ pc' = "respond"
                 /\ rest' = "" /\ cover' = "" /\ first_img' = ""
                 /\ files' = "unset"
                 /\ UNCHANGED <<mode, idx, results, contentStatus, reply, log>>
    /\ UNCHANGED <<feed, storeVars, seen, url, saved, rssDone, fnVars>>

\* save_posted(uid), with the record of what was written.
Record(uid) ==
    /\ file' = save_posted(file, uid)
    /\ fileExists' = TRUE
    /\ saved' = saved \cup {uid}

\* if rsp.status_code == 409: save_posted(uid); return None
\* rsp.raise_for_status(); save_posted(uid); return 'ok'
push_article_respond ==
    /\ pc = "respond"
    /\ IF IsConflict(rsp)
       THEN Record(md5(url)) /\ Returned(None, FALSE)
       ELSE IF RaisesForStatus(rsp)
       THEN Raised("status") /\ UNCHANGED <<storeVars, saved>>
       ELSE Record(md5(url)) /\ Returned("ok", FALSE)
    /\ UNCHANGED <<feed, seen, url, postCount, resolved, dup409, rssDone, fnVars>>

Next ==
    \/ process_rss
    \/ process_rss_entry
    \/ process_rss_return
    \/ \E u \in URLs : root(u)
    \/ push_article_check
    \/ push_article_page
    \/ push_article_content
    \/ push_article_cover
    \/ push_article_post
    \/ push_article_respond

Spec == Init /\ [][Next]_vars

\* ------------------------------------------- the pure parts, run alone
MetaChars == {"A", "B", Comma, IdeographicComma, SP}
TagTexts == {<<"B">>, <<"C">>}

KwInputs == [meta : SeqsUpTo(MetaChars, MaxMeta), tags : SeqsUpTo(TagTexts, MaxTags)]
ImgInputs == [og : {"", "og.jpg"}, raw : Bodies]

PureInit ==
    /\ feed = <<>> /\ fileExists = FALSE /\ file = <<>>
    /\ IdleRun
    /\ \/ fnPc = "kw_in" /\ argIn \in KwInputs
       \/ fnPc = "img_in" /\ argIn \in ImgInputs
    /\ argOut = <<>>

\* The keywords field of the payload, from the page's keyword meta and tag links.
merge_keywords ==
    /\ fnPc = "kw_in"
    /\ LET list == KwDedup(KwSources(argIn.meta, argIn.tags))
       IN  argOut' = [list |-> list, keywords |-> Join(list)]
    /\ fnPc' = "kw_out"
    /\ UNCHANGED <<runVars, argIn>>

\* first_img of a raw body and the cover chosen with the page's og:image.
choose_cover ==
    /\ fnPc = "img_in"
    /\ LET fi == FirstImg(argIn.raw)
       IN  argOut' = [first_img |-> fi, cover |-> CoverOf(argIn.og, fi)]
    /\ fnPc' = "img_out"
    /\ UNCHANGED <<runVars, argIn>>

PureNext == merge_keywords \/ choose_cover

PureSpec == PureInit /\ [][PureNext]_vars


\* ------------------------------------------------------------ properties
Ids(us) == {md5(u) : u \in us}
IsPrefix(s, t) == Len(s) <= Len(t) /\ SubSeq(t, 1, Len(s)) = s
InRssRun == mode = "rss"
AfterRssRun == pc = "idle" /\ reply.kind = "summary"

\* C1: an identifier is in the posted file only if a POST for its url has been
\* answered with a 2xx status or with 409.
C1_StoredOnlyAfterResolvedPost == PostedLines(file) \subseteq Ids(resolved)

\* C2: within one run of process_rss, once an entry's identifier has been
\* recorded (its push_article returned after a POST), every later entry with
\* the same link is skipped, so a url none of whose entries raised is POSTed at
\* most once.
C2_OncePerRun ==
    InRssRun =>
        /\ \A j \in DOMAIN log :
             (\E i \in 1..(j - 1) :
                 /\ log[i].url = log[j].url
                 /\ ~log[i].raised /\ ~log[i].skipped)
             => log[j].skipped
        /\ \A u \in URLs :
             (\A i \in DOMAIN log : log[i].url = u => ~log[i].raised)
             => postCount[u] <= 1

\* C3: a POST answered with a status that is neither 2xx nor 409 makes
\* push_article raise: nothing is appended to the posted file, process_rss puts
\* the entry in the failed list and not in the success list.
C3_OtherStatusIsError ==
    [][(pc = "respond" /\ ~Is2xx(rsp) /\ rsp # 409) =>
         /\ file' = file
         /\ mode = "rss" =>
              /\ results'.failed = Append(results.failed, [url |-> url, error |-> "status"])
              /\ results'.success = results.success
         /\ mode = "single" => reply'.kind = "error"]_vars

\* C4: a POST answered 409 appends the identifier to the posted file and
\* push_article returns without raising: process_rss adds the entry to neither
\* list and goes on, root() answers 'duplicate'; and the first check of that url
\* in a later run finds it in the loaded store and skips it.
C4_ConflictRecorded ==
    [][/\ (pc = "respond" /\ rsp = 409) =>
            /\ md5(url) \in PostedLines(file')
            /\ results' = results
            /\ mode = "rss" =>
                 /\ pc' = "loop" /\ idx' = idx + 1
                 /\ log' = Append(log, [url |-> url, skipped |-> FALSE,
                                        raised |-> FALSE, res |-> None])
            /\ mode = "single" => reply' = [kind |-> "duplicate", code |-> 200]
       /\ (pc = "check" /\ url \in dup409 /\ postCount[url] = 0) =>
            /\ md5(url) \in seen
            /\ pc' \in {"loop", "idle"}
            /\ postCount' = postCount
            /\ results' = results]_vars

C4_Witness ==
    /\ InRssRun
    /\ \E i \in DOMAIN log :
         /\ log[i].skipped
         /\ log[i].url \in dup409
         /\ postCount[log[i].url] = 0
         /\ md5(log[i].url) \in PostedLines(file)

\* C5 as claimed: the second run of process_rss on the same feed issues no POST.
C5_SecondRunNoPosts ==
    (rssDone /\ InRssRun) => \A u \in URLs : postCount[u] = 0

\* C5 as amended: in a second run of process_rss on the same feed, every entry
\* whose identifier the posted file already held when the run loaded it is
\* skipped and no POST is issued for it; everything recorded before the run is
\* in the loaded set.
C5_RecordedEntriesSkipped ==
    (rssDone /\ InRssRun) =>
        /\ \A id \in saved :
             id \in seen \/ \E u \in URLs : md5(u) = id /\ postCount[u] > 0
        /\ \A u \in URLs : md5(u) \in seen => postCount[u] = 0
        /\ \A i \in DOMAIN log : md5(log[i].url) \in seen => log[i].skipped

C5_Witness ==
    /\ rssDone /\ InRssRun
    /\ \E i \in DOMAIN log : log[i].skipped /\ md5(log[i].url) \in saved
    /\ \E u \in URLs : postCount[u] > 0

\* Steps left in a run of process_rss: entries to go, and steps of the entry.
PcRank(p) ==
    CASE p = "loop" -> 6 [] p = "check" -> 5 [] p = "page" -> 4
      [] p = "content" -> 3 [] p = "cover" -> 2 [] p = "post" -> 1
      [] OTHER -> 0
Measure(i, p) == 7 * (Len(feed) + 1 - i) + PcRank(p)
UrlsOf(recs) == [i \in DOMAIN recs |-> recs[i].url]

\* C6, in every state of a run: the entries are processed in order, each exactly
\* once; the failed list holds one item per entry that raised and the success
\* list the entries that returned 'ok'; whether an entry is skipped depends
\* only on the set loaded at the start; the run ends with status 200 and every
\* entry of the feed processed.
C6_Isolated ==
    (InRssRun \/ AfterRssRun) =>
        /\ InRssRun => Len(log) = idx - 1 /\ idx <= Len(feed) + 1
        /\ \A i \in DOMAIN log :
             /\ log[i].url = feed[i]
             /\ log[i].skipped <=> md5(feed[i]) \in seen
        /\ UrlsOf(results.failed) = UrlsOf(SelectSeq(log, LAMBDA e : e.raised))
        /\ results.success = UrlsOf(SelectSeq(log, LAMBDA e : e.res = "ok"))
        /\ AfterRssRun => reply.code = 200 /\ Len(log) = Len(feed)

\* C6: in process_rss an exception of one entry becomes one item of the failed
\* list and never stops the loop: C6_Isolated holds throughout, and every step
\* of a run brings it nearer its end (the loop goes on to the next entry).
C6_FailureIsolation ==
    /\ []C6_Isolated
    /\ [][(InRssRun /\ mode' = "rss") => Measure(idx', pc') < Measure(idx, pc)]_vars

C6_Witness ==
    /\ AfterRssRun
    /\ Len(log) = 2
    /\ log[1].raised
    /\ log[2].res = "ok"

\* C7: the posted file only grows: an existing file is never truncated or
\* rewritten, load_posted changes the file only by creating it when it does not
\* exist, and every identifier save_posted has written is in the set
\* load_posted reads back.
C7_AppendOnly ==
    [][/\ fileExists => (fileExists' /\ IsPrefix(file, file'))
       /\ PostedLines(file) \subseteq PostedLines(file')
       /\ pc = "idle" => (IF fileExists THEN file' = file ELSE file' = <<>>)
       /\ saved' \subseteq load_posted(fileExists', file').set]_vars

C7_Witness ==
    /\ pc = "check"
    /\ Cardinality(saved) = 2
    /\ seen = saved

\* C8: when the content endpoint answers with a non-2xx status, push_article
\* fails before the cover fetch and the POST.
C8_ContentStatusChecked ==
    pc \in {"post", "respond"} => Is2xx(contentStatus)

RECURSIVE Flatten(_)
Flatten(ss) == IF ss = <<>> THEN <<>> ELSE Head(ss) \o Flatten(Tail(ss))
ImagesMet(blocks) ==
    LET inParas == SelectSeq(blocks, LAMBDA b : b.tag = "p" /\ ~b.linkimg)
        outside == SelectSeq(blocks, LAMBDA b : b.tag = "img")
    IN  Flatten([i \in DOMAIN inParas |-> inParas[i].imgs])
        \o Flatten([i \in DOMAIN outside |-> outside[i].imgs])

\* C9: first_img is the src of the first image the body loops meet (the images
\* of the paragraphs that are not skipped, then the images outside paragraphs),
\* and with no og:image and exactly one such image the cover is that image's src.
C9_CoverFallback ==
    fnPc = "img_out" =>
        LET met == ImagesMet(argIn.raw)
        IN  /\ met # <<>> => argOut.first_img = met[1].src
            /\ (argIn.og = "" /\ Len(met) = 1) => argOut.cover = met[1].src

RECURSIVE FirstOccurrences(_, _)
FirstOccurrences(s, i) ==
    IF i > Len(s) THEN <<>>
    ELSE IF \E j \in 1..(i - 1) : s[j] = s[i] THEN FirstOccurrences(s, i + 1)
    ELSE <<s[i]>> \o FirstOccurrences(s, i + 1)
ExampleMeta == <<"A", ",", "B", ",", "A">>
ExampleTags == << <<"B">>, <<"C">> >>
ExampleKeywords == <<"D", "e", "c", "o", "T", "V", ",", "A", ",", "B", ",", "C">>

\* C10: the keywords field is the comma-join of ['DecoTV'] + split(meta) + tags
\* with repeats removed and first occurrences kept in order: it starts with
\* DecoTV, holds no keyword twice and every keyword of the sources, and meta
\* 'A,B,A' with tags ['B', 'C'] gives 'DecoTV,A,B,C'.
C10_KeywordsMerged ==
    fnPc = "kw_out" =>
        LET src == KwSources(argIn.meta, argIn.tags)
            ks == argOut.list
        IN  /\ ks = FirstOccurrences(src, 1)
            /\ argOut.keywords = Join(FirstOccurrences(src, 1))
            /\ IsPrefix(DecoTV, argOut.keywords)
            /\ \A i, j \in DOMAIN ks : ks[i] = ks[j] => i = j
            /\ \A i \in DOMAIN src : \E j \in DOMAIN ks : ks[j] = src[i]
            /\ (argIn.meta = ExampleMeta /\ argIn.tags = ExampleTags)
                 => argOut.keywords = ExampleKeywords

C10_Witness ==
    /\ fnPc = "kw_out"
    /\ argIn.meta = ExampleMeta
    /\ argIn.tags = ExampleTags

====
